---------------------------- MODULE Spec2Model ----------------------------
(***************************************************************************)
(* Game of Life over MPI (life.cpp): rank 0 reads the board, sends every   *)
(* rank a RunConfig and a slice of rows (processRoot); every rank then     *)
(* runs generationsLoop: per generation a boundary-row exchange with its   *)
(* neighbours in the chain, the 8-neighbour update into tmpSlice, on the   *)
(* last generation the collection of the slices at rank 0, and the copy    *)
(* of tmpSlice into slice.                                                 *)
(*                                                                         *)
(* Vectors and matrices are functions over 0..n-1, as in the source.       *)
(* A message channel is a FIFO per (source, destination, tag): MPI         *)
(* matches a receive on source and tag and does not overtake.              *)
(***************************************************************************)
EXTENDS Integers, Sequences, FiniteSets, TLC

\* ------------------------------------------------------------- bounds
\* Largest number of MPI processes (mpirun -np) that is enumerated.
MaxWorkers == 3

\* Largest generation count (argv[2]) that is enumerated.
MaxGen == 2

\* Largest number of processors in /proc/cpuinfo that is enumerated.
MaxProcessors == 3

\* ---------------------------------------------------------- constants
MASTER == 0

TAG == 0

SLICE_TAG == 2

DOWN_TAG == 3

UP_TAG == 4

FINAL_TAG == 5

Tags == {TAG, SLICE_TAG, DOWN_TAG, UP_TAG, FINAL_TAG}

\* ------------------------------------------------------------ helpers
\* v.size() of a vector held as a function over 0..n-1.
Size(v) == Cardinality(DOMAIN v)

\* A literal <<..>> as a vector indexed from 0.
ZeroBased(s) == [i \in 0..(Len(s) - 1) |-> s[i + 1]]

\* vector<int> v(n): n zeros.  fill(v.begin(), v.end(), 0) gives the same.
Zeros(n) == [j \in 0..(n - 1) |-> 0]

\* board.pop_back()
PopBack(v) == [i \in 0..(Size(v) - 2) |-> v[i]]

\* board.back()
Back(v) == v[Size(v) - 1]

\* ------------------------------------------------------------- inputs
AllGrids(r, c) == [0..(r - 1) -> [0..(c - 1) -> {0, 1}]]

\* The 4x4 board of the README ("Sample Input File").
ReadmeGrid ==
    ZeroBased(<< ZeroBased(<<0, 1, 1, 0>>), ZeroBased(<<1, 0, 0, 1>>),
                 ZeroBased(<<0, 1, 1, 0>>), ZeroBased(<<1, 0, 0, 1>>) >>)

\* A 6x3 board: slices of two rows for three workers, of three for two.
TallGrid ==
    ZeroBased(<< ZeroBased(<<0, 1, 0>>), ZeroBased(<<1, 1, 0>>),
                 ZeroBased(<<0, 1, 1>>), ZeroBased(<<1, 0, 1>>),
                 ZeroBased(<<1, 1, 0>>), ZeroBased(<<0, 0, 1>>) >>)

\* A 6x5 board with a blinker: three live cells in line in row 2, a dead cell
\* or more between them and every edge, in this phase and in the upright one.
\* Row 2 is the last row of a slice of three rows and the first of a slice of two.
BlinkerGrid ==
    ZeroBased(<< Zeros(5), Zeros(5), ZeroBased(<<0, 1, 1, 1, 0>>),
                 Zeros(5), Zeros(5), Zeros(5) >>)

\* The boards that are run: every 2x2 and 3x1 board, every 3x2 board whose
\* upper two rows are alive, and the three above.
Grids ==
    AllGrids(2, 2) \cup AllGrids(3, 1)
        \cup {b \in AllGrids(3, 2) : b[0] = ZeroBased(<<1, 1>>) /\ b[1] = b[0]}
        \cup {ReadmeGrid, TallGrid, BlinkerGrid}

\* What a read outside a std::vector's storage (fromTop[-1], fromTop[columns],
\* board[0] of an emptied board) can do.  With libstdc++'s assertions on (the
\* default of an unoptimised build since GCC 15, and test.sh compiles without
\* -O) operator[] ends the process: trap.  Otherwise the read yields the word
\* beside the storage: 0, or such as 33, the size field 0x21 of the next heap
\* chunk, or such as 2, what an earlier use of the chunk left in the bytes
\* past the vector's last element.  The outcome is drawn once for the run.
OOBVals == {0, 2, 33}

UBOutcomes ==
    {[trap |-> TRUE, word |-> 0]} \cup {[trap |-> FALSE, word |-> v] : v \in OOBVals}

VARIABLES
    size,        \* MPI_Comm_size
    grid,        \* the board as read from the file (never changed)
    generations, \* atoi(argv[2])
    ub,          \* outcome of an out-of-bounds vector read in this run
    pc,          \* pc[rank]: where each process stands
    board,       \* processRoot: vector<vector<int>> board
    sendInfoVector, \* processRoot: {columns, sliceRows, generations}
    dest,        \* processRoot: loop variable dest of the RunConfig sends
    p,           \* processRoot: loop variable p of the slice sends
    net,         \* messages sent and not yet received, per <<src, dst, tag>>
    info,        \* generationsLoop: receiveInfoVector of each rank
    slice,       \* generationsLoop: slice of each rank
    tmpSlice,    \* generationsLoop: tmpSlice of each rank
    fromTop,     \* generationsLoop: fromTop of each rank
    fromBottom,  \* generationsLoop: fromBottom of each rank
    g,           \* generationsLoop: loop variable g of each rank
    i,           \* generationsLoop, rank 0: index of the collection loop
    report,      \* lines written to stdout, in order: [rank, cells]
    hist,        \* history: hist[rank][k+1] is the rank's slice after k updates
    haloGen,     \* history: the generation fromTop and fromBottom were filled in
    available_processors, \* test.sh: grep -c processor /proc/cpuinfo
    num_processors, \* test.sh: what find_lowest_divisor wrote, as a sequence
    launcher     \* test.sh: "script" before line 44, then "mpirun" or "failed"

vars == << size, grid, generations, ub, pc, board, sendInfoVector, dest, p, net,
           info, slice, tmpSlice, fromTop, fromBottom, g, i, report, hist,
           haloGen, available_processors, num_processors, launcher >>

Procs == 0..(size - 1)

COLUMNS == 0

SLICEROWS == 1

GENERATIONS == 2

\* ------------------------------------------------------------ channel
Empty == << >>

\* MPI_Send under a buffering transport: the message is queued, the sender goes on.
Send(n, src, dst, tag, payload) ==
    [n EXCEPT ![<<src, dst, tag>>] = Append(@, payload)]

\* A message MPI_Recv(source, tag) can match.
CanRecv(n, src, dst, tag) == n[<<src, dst, tag>>] # << >>

\* The message MPI_Recv(source, tag) delivers: the oldest from that source with that tag.
Received(n, src, dst, tag) == Head(n[<<src, dst, tag>>])

Consume(n, src, dst, tag) == [n EXCEPT ![<<src, dst, tag>>] = Tail(@)]

\* ------------------------------------------------------------- kernel
\* v[ny] of a std::vector of `columns` elements.
VectorAt(v, ny, columns, oob) ==
    IF ny >= 0 /\ ny < columns THEN v[ny] ELSE oob

\* One neighbour's addend to sum.
Neighbour(sl, top, bot, nx, ny, sliceRows, columns, oob) ==
    IF nx >= 0 /\ nx < sliceRows /\ ny >= 0 /\ ny < columns THEN sl[nx][ny]
    ELSE IF nx < 0 THEN VectorAt(top, ny, columns, oob)
    ELSE IF nx >= sliceRows THEN VectorAt(bot, ny, columns, oob)
    ELSE 0

\* sum after the dx, dy loops for cell (x, y).
NeighbourSum(sl, top, bot, x, y, sliceRows, columns, oob) ==
      Neighbour(sl, top, bot, x - 1, y - 1, sliceRows, columns, oob)
    + Neighbour(sl, top, bot, x - 1, y,     sliceRows, columns, oob)
    + Neighbour(sl, top, bot, x - 1, y + 1, sliceRows, columns, oob)
    + Neighbour(sl, top, bot, x,     y - 1, sliceRows, columns, oob)
    + Neighbour(sl, top, bot, x,     y + 1, sliceRows, columns, oob)
    + Neighbour(sl, top, bot, x + 1, y - 1, sliceRows, columns, oob)
    + Neighbour(sl, top, bot, x + 1, y,     sliceRows, columns, oob)
    + Neighbour(sl, top, bot, x + 1, y + 1, sliceRows, columns, oob)

\* Variant for C12: a live cell with two or more living neighbours lives.
RuleNoOverpopulation(cell, sum) ==
    IF cell = 1 /\ sum < 2 THEN 0
    ELSE IF cell = 1 /\ sum >= 2 THEN 1
    ELSE IF cell = 1 /\ sum > 3 THEN 0
    ELSE IF cell = 0 /\ sum = 3 THEN 1
    ELSE 0

\* The rules of the game: tmpSlice[x][y] from slice[x][y] and sum.
Rule(cell, sum) ==
    IF cell = 1 /\ sum < 2 THEN 0
    ELSE IF cell = 1 /\ (sum = 2 \/ sum = 3) THEN 1
    ELSE IF cell = 1 /\ sum > 3 THEN 0
    ELSE IF cell = 0 /\ sum = 3 THEN 1
    ELSE 0

\* Variant for C15: the new value of each cell is written into slice itself,
\* cell after cell in the order of the x, y loops, so the cells after it read it.
RECURSIVE InPlaceFrom(_, _, _, _, _, _, _)
InPlaceFrom(cur, top, bot, sliceRows, columns, oob, k) ==
    IF k >= sliceRows * columns THEN cur
    ELSE LET x == k \div columns
             y == k % columns
         IN  InPlaceFrom(
                 [cur EXCEPT ![x][y] =
                     Rule(cur[x][y],
                          NeighbourSum(cur, top, bot, x, y, sliceRows, columns, oob))],
                 top, bot, sliceRows, columns, oob, k + 1)

UpdateKernelInPlace(sl, top, bot, sliceRows, columns, oob) ==
    InPlaceFrom(sl, top, bot, sliceRows, columns, oob, 0)

\* tmpSlice after the x, y loops.
UpdateKernel(sl, top, bot, sliceRows, columns, oob) ==
    [x \in 0..(sliceRows - 1) |->
        [y \in 0..(columns - 1) |->
            Rule(sl[x][y], NeighbourSum(sl, top, bot, x, y, sliceRows, columns, oob))]]

\* The kernel reads fromTop[-1] for cell (0, 0) whenever the slice has a cell.
KernelReadsOutside(sliceRows, columns) == sliceRows >= 1 /\ columns >= 1

\* The indices ny with which line 179 reads fromTop[ny]: for x = 0 and dx = -1
\* the first test fails on nx, whatever ny = y + dy is.
FromTopIndices(sliceRows, columns) ==
    IF sliceRows >= 1
    THEN {y + dy : y \in 0..(columns - 1), dy \in {-1, 0, 1}}
    ELSE {}

\* The indices ny with which line 180 reads fromBottom[ny]: x = sliceRows - 1, dx = 1.
FromBottomIndices(sliceRows, columns) ==
    IF sliceRows >= 1
    THEN {y + dy : y \in 0..(columns - 1), dy \in {-1, 0, 1}}
    ELSE {}

\* ---------------------------------------------------------------- Init
\* A message: its data, and the generation it was sent in (history only; 0
\* for the RunConfig and the initial slice).
Msg(data, gen) == [data |-> data, gen |-> gen]

\* main, lines 241-248, for a job of n processes: rank 0 is in processRoot,
\* every other rank at the first receive of generationsLoop.
StartedAt(n) ==
    [r \in 0..(n - 1) |-> IF r = MASTER THEN "processRoot" ELSE "recvInfo"]

\* No message has been sent among n processes.
NothingSent(n) == [k \in (0..(n - 1)) \X (0..(n - 1)) \X Tags |-> Empty]

\* The same value v in every one of n processes.
InEach(n, v) == [r \in 0..(n - 1) |-> v]

\* The row vectors before any generation: constructed at line 130.
Constructed == [top |-> 0, bottom |-> 0]

\* The job as mpirun -np size starts it, rank 0 having read the board (lines
\* 40-61), for the boards and generation counts given.
Started(boards, gens) ==
    /\ grid \in boards
    /\ generations \in gens
    /\ ub \in UBOutcomes
    /\ pc = StartedAt(size)
    /\ board = grid
    /\ sendInfoVector = Zeros(3)
    /\ dest = 0
    /\ p = 0
    /\ net = NothingSent(size)
    /\ info = InEach(size, Zeros(3))
    /\ slice = InEach(size, Empty)
    /\ tmpSlice = InEach(size, Empty)
    /\ fromTop = InEach(size, Empty)
    /\ fromBottom = InEach(size, Empty)
    /\ g = InEach(size, 0)
    /\ i = 0
    /\ report = << >>
    /\ hist = InEach(size, << >>)
    /\ haloGen = InEach(size, Constructed)

\* The job started by hand (README, "Manual Execution": mpirun -np <n>), not
\* by test.sh.
ByHand ==
    /\ available_processors = size
    /\ num_processors = << size >>
    /\ launcher = "mpirun"

\* The state when rank 0 has read the board (lines 40-61) and every other rank
\* has entered generationsLoop.  Worker counts above the row count are not run.
Init ==
    /\ size \in 1..MaxWorkers
    /\ Started({b \in Grids : Size(b) >= size}, {-1} \cup 0..MaxGen)
    /\ ByHand

\* MPI_Abort(MPI_COMM_WORLD, 1): every process of the job is ended.
Aborted == [r \in Procs |-> "aborted"]

\* A process that ends abnormally (failed assertion): mpirun ends the job.
Crashed == [r \in Procs |-> "crashed"]

\* --------------------------------------------------------- processRoot
workerVars == << info, slice, tmpSlice, fromTop, fromBottom, g, i, hist, haloGen >>

rootVars == << board, sendInfoVector, dest, p >>

inputVars == << size, grid, generations, ub, available_processors,
               num_processors, launcher >>

\* while (!board.empty()): print the last row with the root's rank, pop it.
RootPrintInitial ==
    /\ pc[MASTER] = "processRoot"
    /\ generations = 0
    /\ Size(board) > 0
    /\ report' = Append(report, [rank |-> MASTER, cells |-> Back(board)])
    /\ board' = PopBack(board)
    /\ UNCHANGED << inputVars, pc, sendInfoVector, dest, p, net, workerVars >>

\* Variant for C8: the test misses -1.
NegativeBelowMinusOne(gens) == gens < -1

\* else if (generations < 0)
NegativeGenerations(gens) == gens < 0

RootAbort ==
    /\ pc[MASTER] = "processRoot"
    /\ generations # 0
    /\ NegativeGenerations(generations)
    /\ pc' = Aborted
    /\ UNCHANGED << inputVars, rootVars, net, workerVars, report >>

\* board[0].size(): of an emptied board it is a read of a destroyed element,
\* which yields the stale size or whatever the word holds now.
DanglingSize(stale, oob) == {stale, oob}

\* rows / size
SliceRows(rows, n) == rows \div n

\* Lines 82-88: rows, columns, sliceRows and sendInfoVector.
RootDims ==
    /\ pc[MASTER] = "processRoot"
    /\ ~NegativeGenerations(generations)
    /\ generations = 0 => Size(board) = 0
    /\ \/ /\ Size(board) > 0
          /\ sendInfoVector' = ZeroBased(<< Size(board[0]),
                                            SliceRows(Size(board), size),
                                            generations >>)
          /\ pc' = [pc EXCEPT ![MASTER] = "sendInfo"]
       \/ /\ Size(board) = 0
          /\ ~ub.trap
          /\ \E columns \in DanglingSize(Size(grid[0]), ub.word) :
                sendInfoVector' = ZeroBased(<< columns,
                                               SliceRows(Size(board), size),
                                               generations >>)
          /\ pc' = [pc EXCEPT ![MASTER] = "sendInfo"]
       \/ /\ Size(board) = 0
          /\ ub.trap
          /\ sendInfoVector' = sendInfoVector
          /\ pc' = Crashed
    /\ dest' = 0
    /\ UNCHANGED << inputVars, board, p, net, workerVars, report >>

\* for (dest...) MPI_Send(sendInfoVector, 3, MPI_INT, dest, TAG)
RootSendInfo ==
    /\ pc[MASTER] = "sendInfo"
    /\ dest < size
    /\ net' = Send(net, MASTER, dest, TAG, Msg(sendInfoVector, 0))
    /\ dest' = dest + 1
    /\ pc' = [pc EXCEPT ![MASTER] = IF dest + 1 < size THEN "sendInfo" ELSE "sendSlice"]
    /\ p' = 0
    /\ UNCHANGED << inputVars, board, sendInfoVector, workerVars, report >>

\* The slice filled for processor q: board rows q*sliceRows .. q*sliceRows+sliceRows-1.
FirstRowOf(q, sliceRows) == q * sliceRows

PartitionSlice(b, q, sliceRows, columns) ==
    [row \in 0..(sliceRows - 1) |->
        [column \in 0..(columns - 1) |-> b[row + FirstRowOf(q, sliceRows)][column]]]

\* for (p...) fill slice; MPI_Send(&slice, columns * sliceRows, MPI_INT, p, 2)
RootSendSlice ==
    /\ pc[MASTER] = "sendSlice"
    /\ p < size
    /\ net' = Send(net, MASTER, p, SLICE_TAG,
                   Msg(PartitionSlice(board, p, sendInfoVector[SLICEROWS],
                                      sendInfoVector[COLUMNS]), 0))
    /\ p' = p + 1
    /\ pc' = [pc EXCEPT ![MASTER] = IF p + 1 < size THEN "sendSlice" ELSE "recvInfo"]
    /\ UNCHANGED << inputVars, board, sendInfoVector, dest, workerVars, report >>


\* ----------------------------------------------------- generationsLoop
\* Variant for C17: the loop test is g < generations.
LoopHeadOffByOne(gv, gens) == IF gv < gens THEN "sendDown" ELSE "finished"

\* for (int g = 1; g <= generations; g++): where the loop test leads.
LoopHead(gv, gens) == IF gv <= gens THEN "sendDown" ELSE "finished"

\* MPI_Recv(receiveInfoVector, 3, MPI_INT, MASTER, TAG)
RecvInfo(r) ==
    /\ pc[r] = "recvInfo"
    /\ CanRecv(net, MASTER, r, TAG)
    /\ info' = [info EXCEPT ![r] = Received(net, MASTER, r, TAG).data]
    /\ net' = Consume(net, MASTER, r, TAG)
    /\ pc' = [pc EXCEPT ![r] = "recvSlice"]
    /\ UNCHANGED << inputVars, rootVars, slice, tmpSlice, fromTop, fromBottom,
                    g, i, hist, haloGen, report >>

\* MPI_Recv(&slice, columns * sliceRows, MPI_INT, MASTER, 2); the four row
\* vectors are constructed (zeros); g = 1 and the first loop test.
RecvSlice(r) ==
    /\ pc[r] = "recvSlice"
    /\ CanRecv(net, MASTER, r, SLICE_TAG)
    /\ slice' = [slice EXCEPT ![r] = Received(net, MASTER, r, SLICE_TAG).data]
    /\ net' = Consume(net, MASTER, r, SLICE_TAG)
    /\ fromTop' = [fromTop EXCEPT ![r] = Zeros(info[r][COLUMNS])]
    /\ fromBottom' = [fromBottom EXCEPT ![r] = Zeros(info[r][COLUMNS])]
    /\ g' = [g EXCEPT ![r] = 1]
    /\ hist' = [hist EXCEPT ![r] = << slice'[r] >>]
    /\ pc' = [pc EXCEPT ![r] = LoopHead(1, info[r][GENERATIONS])]
    /\ UNCHANGED << inputVars, rootVars, info, tmpSlice, i, report, haloGen >>

\* Variant for C6: the first row of the slice is sent down.
BottomRowIndexFirst(sliceRows) == 0

\* The row copied into toBottom: slice[sliceRows - 1].
BottomRowIndex(sliceRows) == sliceRows - 1

\* The row copied into toTop: slice[0].
TopRowIndex(sliceRows) == 0

\* vector v with v[j] = sl[x][j] for j < columns.
RowOf(sl, x, columns) == [j \in 0..(columns - 1) |-> sl[x][j]]

\* The rank a row is sent down to, and the rank a row is sent up to.
Below(r) == r + 1

Above(r) == r - 1

\* The four tests of the exchange: if (rank != size - 1) before the send down,
\* if (rank != 0) before the receive from above and before the send up,
\* if (rank != size - 1) before the receive from below.
SendsDown(r) == r # size - 1

\* Variant for C18: no rank waits for the row from above.
ReceivesFromAboveNever(r) == FALSE

\* Variant for C16: the last rank zero-fills fromTop as the first one does.
ReceivesFromAboveInner(r) == r # 0 /\ r # size - 1

ReceivesFromAbove(r) == r # 0

SendsUp(r) == r # 0

\* Variant for C14: the receive of the row from below is left out.
ReceivesFromBelowNever(r) == FALSE

\* Variant for C5: rank 0 does not receive the row sent up to it.
ReceivesFromBelowInner(r) == r # size - 1 /\ r # 0

ReceivesFromBelow(r) == r # size - 1

\* if (rank != size - 1) send the last row down, tag 3; else fill fromBottom with 0.
\* `sent` is where the sender stands once MPI_Send has been called.
SendDownTo(r, sent) ==
    /\ pc[r] = "sendDown"
    /\ IF SendsDown(r)
       THEN /\ net' = Send(net, r, Below(r), DOWN_TAG,
                           Msg(RowOf(slice[r], BottomRowIndex(info[r][SLICEROWS]),
                                     info[r][COLUMNS]), g[r]))
            /\ fromBottom' = fromBottom
            /\ haloGen' = haloGen
       ELSE /\ fromBottom' = [fromBottom EXCEPT ![r] = Zeros(info[r][COLUMNS])]
            /\ haloGen' = [haloGen EXCEPT ![r].bottom = g[r]]
            /\ net' = net
    /\ pc' = [pc EXCEPT ![r] = IF SendsDown(r) THEN sent ELSE "recvTop"]
    /\ UNCHANGED << inputVars, rootVars, info, slice, tmpSlice, fromTop, g, i,
                    hist, report >>

SendDown(r) == SendDownTo(r, "recvTop")

\* if (rank != 0) receive fromTop from rank - 1, tag 3; else fill fromTop with 0.
RecvTop(r) ==
    /\ pc[r] = "recvTop"
    /\ IF ReceivesFromAbove(r)
       THEN /\ CanRecv(net, Above(r), r, DOWN_TAG)
            /\ fromTop' = [fromTop EXCEPT ![r] = Received(net, Above(r), r, DOWN_TAG).data]
            /\ haloGen' = [haloGen EXCEPT ![r].top = Received(net, Above(r), r, DOWN_TAG).gen]
            /\ net' = Consume(net, Above(r), r, DOWN_TAG)
       ELSE /\ fromTop' = [fromTop EXCEPT ![r] = Zeros(info[r][COLUMNS])]
            /\ haloGen' = [haloGen EXCEPT ![r].top = g[r]]
            /\ net' = net
    /\ pc' = [pc EXCEPT ![r] = "sendUp"]
    /\ UNCHANGED << inputVars, rootVars, info, slice, tmpSlice, fromBottom, g, i,
                    hist, report >>

\* if (rank != 0) send the first row up, tag 4.
SendUpTo(r, sent) ==
    /\ pc[r] = "sendUp"
    /\ IF SendsUp(r)
       THEN net' = Send(net, r, Above(r), UP_TAG,
                        Msg(RowOf(slice[r], TopRowIndex(info[r][SLICEROWS]),
                                  info[r][COLUMNS]), g[r]))
       ELSE net' = net
    /\ pc' = [pc EXCEPT ![r] = IF SendsUp(r) THEN sent ELSE "recvBottom"]
    /\ UNCHANGED << inputVars, rootVars, info, slice, tmpSlice, fromTop,
                    fromBottom, g, i, hist, haloGen, report >>

SendUp(r) == SendUpTo(r, "recvBottom")

\* if (rank != size - 1) receive fromBottom from rank + 1, tag 4.
RecvBottom(r) ==
    /\ pc[r] = "recvBottom"
    /\ IF ReceivesFromBelow(r)
       THEN /\ CanRecv(net, Below(r), r, UP_TAG)
            /\ fromBottom' = [fromBottom EXCEPT ![r] = Received(net, Below(r), r, UP_TAG).data]
            /\ haloGen' = [haloGen EXCEPT ![r].bottom = Received(net, Below(r), r, UP_TAG).gen]
            /\ net' = Consume(net, Below(r), r, UP_TAG)
       ELSE /\ fromBottom' = fromBottom
            /\ haloGen' = haloGen
            /\ net' = net
    /\ pc' = [pc EXCEPT ![r] = "update"]
    /\ UNCHANGED << inputVars, rootVars, info, slice, tmpSlice, fromTop, g, i,
                    hist, report >>

\* if (g == generations): the root prints and collects, the others send.
AfterUpdate(r, gv, gens) ==
    IF gv = gens THEN (IF r = 0 THEN "print" ELSE "sendFinal") ELSE "copy"

\* Lines 157-191: tmpSlice is computed from slice, fromTop and fromBottom.
Update(r) ==
    /\ pc[r] = "update"
    /\ \/ /\ ub.trap
          /\ KernelReadsOutside(info[r][SLICEROWS], info[r][COLUMNS])
          /\ pc' = Crashed
          /\ UNCHANGED << tmpSlice, hist >>
       \/ /\ ~ub.trap
          /\ tmpSlice' = [tmpSlice EXCEPT ![r] =
                 UpdateKernel(slice[r], fromTop[r], fromBottom[r],
                              info[r][SLICEROWS], info[r][COLUMNS], ub.word)]
          /\ hist' = [hist EXCEPT ![r] = Append(@, tmpSlice'[r])]
          /\ pc' = [pc EXCEPT ![r] = AfterUpdate(r, g[r], info[r][GENERATIONS])]
    /\ UNCHANGED << inputVars, rootVars, net, info, slice, fromTop, fromBottom,
                    g, i, report, haloGen >>

\* The lines printed for a slice: "<rank>: <cells of row x>" for x = 0..sliceRows-1.
Lines(rank, sl, sliceRows, columns) ==
    [k \in 1..sliceRows |-> [rank |-> rank, cells |-> RowOf(sl, k - 1, columns)]]

\* Lines 199-205: the root prints its tmpSlice; i = 1 and the first test of the loop.
PrintOwn ==
    /\ pc[MASTER] = "print"
    /\ report' = report \o Lines(MASTER, tmpSlice[MASTER],
                                 info[MASTER][SLICEROWS], info[MASTER][COLUMNS])
    /\ i' = 1
    /\ pc' = [pc EXCEPT ![MASTER] = IF 1 < size THEN "collect" ELSE "copy"]
    /\ UNCHANGED << inputVars, rootVars, net, info, slice, tmpSlice, fromTop,
                    fromBottom, g, hist, haloGen >>

\* Variant for C3: the collection loop receives from the highest rank first.
CollectFromReversed(k) == size - k

\* The source rank of the receive in iteration k of the collection loop.
CollectFrom(k) == k

\* Lines 206-215: MPI_Recv(&sliceToPrint, ..., i, 5) and its lines, labelled i.
Collect ==
    /\ pc[MASTER] = "collect"
    /\ i < size
    /\ CanRecv(net, CollectFrom(i), MASTER, FINAL_TAG)
    /\ report' = report \o Lines(i, Received(net, CollectFrom(i), MASTER, FINAL_TAG).data,
                                 info[MASTER][SLICEROWS], info[MASTER][COLUMNS])
    /\ net' = Consume(net, CollectFrom(i), MASTER, FINAL_TAG)
    /\ i' = i + 1
    /\ pc' = [pc EXCEPT ![MASTER] = IF i + 1 < size THEN "collect" ELSE "copy"]
    /\ UNCHANGED << inputVars, rootVars, info, slice, tmpSlice, fromTop,
                    fromBottom, g, hist, haloGen >>

\* Line 218: MPI_Send(&tmpSlice, columns * sliceRows, MPI_INT, MASTER, 5)
SendFinalTo(r, sent) ==
    /\ pc[r] = "sendFinal"
    /\ net' = Send(net, r, MASTER, FINAL_TAG, Msg(tmpSlice[r], g[r]))
    /\ pc' = [pc EXCEPT ![r] = sent]
    /\ UNCHANGED << inputVars, rootVars, info, slice, tmpSlice, fromTop,
                    fromBottom, g, i, hist, haloGen, report >>

SendFinal(r) == SendFinalTo(r, "copy")

\* Lines 221-228 and g++: slice = tmpSlice, then the loop test.
Copy(r) ==
    /\ pc[r] = "copy"
    /\ slice' = [slice EXCEPT ![r] = tmpSlice[r]]
    /\ g' = [g EXCEPT ![r] = g[r] + 1]
    /\ pc' = [pc EXCEPT ![r] = LoopHead(g[r] + 1, info[r][GENERATIONS])]
    /\ UNCHANGED << inputVars, rootVars, net, info, tmpSlice, fromTop,
                    fromBottom, i, hist, haloGen, report >>

\* ------------------------------------------------------- specification
Next ==
    \/ RootPrintInitial
    \/ RootAbort
    \/ RootDims
    \/ RootSendInfo
    \/ RootSendSlice
    \/ PrintOwn
    \/ Collect
    \/ \E r \in Procs : RecvInfo(r)
    \/ \E r \in Procs : RecvSlice(r)
    \/ \E r \in Procs : SendDown(r)
    \/ \E r \in Procs : RecvTop(r)
    \/ \E r \in Procs : SendUp(r)
    \/ \E r \in Procs : RecvBottom(r)
    \/ \E r \in Procs : Update(r)
    \/ \E r \in Procs : SendFinal(r)
    \/ \E r \in Procs : Copy(r)

Spec == Init /\ [][Next]_vars

\* ------------------------------------------------- every neighbourhood
\* The program run on every 3x3 board, by one process and by two (one row
\* each, the third row left out): with one process the centre cell meets
\* every cell state with every count 0..8.
Neighbourhoods == AllGrids(3, 3)

InitKernel ==
    /\ size \in {1, 2}
    /\ Started(Neighbourhoods, {-1, 0, 1})
    /\ ByHand

SpecKernel == InitKernel /\ [][Next]_vars

\* ------------------------------------------- synchronous-send transport
\* The halo rows and the final slices are sent synchronously: MPI_Send returns
\* only when the receiver's matching MPI_Recv has taken the message.  The
\* RunConfig and the initial slices stay buffered: rank 0 sends them to itself
\* before it receives anything, so under a synchronous send it would never
\* leave line 91 and no exchange would be reached.
SendDownSync(r) == SendDownTo(r, "waitDown")

SendUpSync(r) == SendUpTo(r, "waitUp")

SendFinalSync(r) == SendFinalTo(r, "waitFinal")

\* The blocked MPI_Send returns: the message it sent has been received.
SendReturns(r, blocked, dst, tag, after) ==
    /\ pc[r] = blocked
    /\ net[<<r, dst, tag>>] = << >>
    /\ pc' = [pc EXCEPT ![r] = after]
    /\ UNCHANGED << inputVars, rootVars, net, workerVars, report >>

DownMatched(r) == SendsDown(r) /\ SendReturns(r, "waitDown", Below(r), DOWN_TAG, "recvTop")

UpMatched(r) == SendsUp(r) /\ SendReturns(r, "waitUp", Above(r), UP_TAG, "recvBottom")

FinalMatched(r) == SendReturns(r, "waitFinal", MASTER, FINAL_TAG, "copy")

NextSync ==
    \/ RootPrintInitial
    \/ RootAbort
    \/ RootDims
    \/ RootSendInfo
    \/ RootSendSlice
    \/ PrintOwn
    \/ Collect
    \/ \E r \in Procs : RecvInfo(r)
    \/ \E r \in Procs : RecvSlice(r)
    \/ \E r \in Procs : SendDownSync(r)
    \/ \E r \in Procs : DownMatched(r)
    \/ \E r \in Procs : RecvTop(r)
    \/ \E r \in Procs : SendUpSync(r)
    \/ \E r \in Procs : UpMatched(r)
    \/ \E r \in Procs : RecvBottom(r)
    \/ \E r \in Procs : Update(r)
    \/ \E r \in Procs : SendFinalSync(r)
    \/ \E r \in Procs : FinalMatched(r)
    \/ \E r \in Procs : Copy(r)

SpecSync == Init /\ [][NextSync]_vars

\* --------------------------------------------------------------- test.sh
\* find_lowest_divisor: divisor counts up from 2 while divisor <= num_lines;
\* the first quotient num_lines / divisor that is whole and at most `value`
\* is written and the function returns; if the loop ends, nothing is written.
RECURSIVE FindFrom(_, _, _)
FindFrom(num_lines, value, divisor) ==
    IF divisor <= num_lines
    THEN IF num_lines % divisor = 0 /\ num_lines \div divisor <= value
         THEN << num_lines \div divisor >>
         ELSE FindFrom(num_lines, value, divisor + 1)
    ELSE << >>

find_lowest_divisor(num_lines, value) == FindFrom(num_lines, value, 2)

\* The boards test.sh is run on: those above, and every board of one row.
LauncherGrids == Grids \cup AllGrids(1, 2)

\* test.sh before line 44: the input file and the generation count are given,
\* the lines and the processors are counted, no process is started.
InitLauncher ==
    /\ size = 0
    /\ Started(LauncherGrids, {-1} \cup 0..MaxGen)
    /\ available_processors \in 1..MaxProcessors
    /\ num_processors = << >>
    /\ launcher = "script"

\* Lines 44-53: num_processors=$(find_lowest_divisor $num_lines
\* $available_processors), then mpirun -np "$num_processors" life.  With
\* nothing written -np is given the empty string and mpirun starts no job.
Launch ==
    /\ launcher = "script"
    /\ num_processors' = find_lowest_divisor(Size(grid), available_processors)
    /\ IF num_processors' # << >>
       THEN /\ launcher' = "mpirun"
            /\ size' = Head(num_processors')
            /\ pc' = StartedAt(size')
            /\ net' = NothingSent(size')
            /\ info' = InEach(size', Zeros(3))
            /\ slice' = InEach(size', Empty)
            /\ tmpSlice' = InEach(size', Empty)
            /\ fromTop' = InEach(size', Empty)
            /\ fromBottom' = InEach(size', Empty)
            /\ g' = InEach(size', 0)
            /\ hist' = InEach(size', << >>)
            /\ haloGen' = InEach(size', Constructed)
       ELSE /\ launcher' = "failed"
            /\ UNCHANGED << size, pc, net, info, slice, tmpSlice, fromTop,
                            fromBottom, g, hist, haloGen >>
    /\ UNCHANGED << grid, generations, ub, available_processors, rootVars, i, report >>

\* The job mpirun started.
Job == launcher = "mpirun" /\ Next

NextLauncher == Launch \/ Job

SpecLauncher == InitLauncher /\ [][NextLauncher]_vars

\* ============================================================== claims
Rows == Size(grid)

Cols == Size(grid[0])

Divides == Rows % size = 0

AllFinished == \A r \in Procs : pc[r] = "finished"

NetEmpty == \A k \in DOMAIN net : net[k] = << >>

\* The cells of the report's lines, top to bottom.
ReportCells == [k \in 0..(Len(report) - 1) |-> report[k + 1].cells]

\* The reference: one process, the whole grid, cells outside the grid dead.
RefCell(m, x, y) ==
    IF x >= 0 /\ x < Size(m) /\ y >= 0 /\ y < Size(m[0]) THEN m[x][y] ELSE 0

RefCount(m, x, y) ==
      RefCell(m, x - 1, y - 1) + RefCell(m, x - 1, y) + RefCell(m, x - 1, y + 1)
    + RefCell(m, x, y - 1) + RefCell(m, x, y + 1)
    + RefCell(m, x + 1, y - 1) + RefCell(m, x + 1, y) + RefCell(m, x + 1, y + 1)

RefStep(m) ==
    [x \in DOMAIN m |-> [y \in DOMAIN m[x] |->
        IF \/ m[x][y] = 1 /\ RefCount(m, x, y) \in {2, 3}
           \/ m[x][y] = 0 /\ RefCount(m, x, y) = 3
        THEN 1 ELSE 0]]

RECURSIVE RefEvolve(_, _)
RefEvolve(m, n) == IF n = 0 THEN m ELSE RefEvolve(RefStep(m), n - 1)

\* C1: for generations >= 1 and rows % W = 0 the report of the finished run,
\* read in report order, is the grid after `generations` steps of the
\* solid-wall 8-neighbour rule applied to the whole grid by one process.
C1_ReportEqualsReference ==
    (generations >= 1 /\ Divides /\ AllFinished)
        => ReportCells = RefEvolve(grid, generations)

\* C2: for generations = 0 the report is the original grid: one line per row,
\* top to bottom, row k labelled with the rank that owns it, k div sliceRows.
C2_ZeroGenerationsReport ==
    (generations = 0 /\ Divides /\ AllFinished)
        => report = [k \in 1..Rows |->
                        [rank |-> (k - 1) \div (Rows \div size), cells |-> grid[k - 1]]]

\* The slice rank r holds after the last update.
FinalSlice(r) == hist[r][generations + 1]

\* C3: for generations >= 1 every report line k is row (k-1) mod sliceRows of
\* the final slice of rank (k-1) div sliceRows, labelled with that rank: the
\* root's slice first, then ranks 1, 2, ... in increasing order, rows top to
\* bottom; and the finished run has printed one line per grid row.
C3_ReportRankMajor ==
    generations >= 1 =>
        /\ \A k \in 1..Len(report) :
              LET r == (k - 1) \div (Rows \div size)
                  x == (k - 1) % (Rows \div size)
              IN  /\ r \in Procs
                  /\ Len(hist[r]) >= generations + 1
                  /\ report[k] = [rank |-> r, cells |-> FinalSlice(r)[x]]
        /\ (AllFinished /\ Divides) => Len(report) = Rows

\* The root waits for rank 1's final slice while rank 2's is already queued.
C3_Witness ==
    /\ generations >= 1
    /\ size >= 3
    /\ pc[MASTER] = "collect"
    /\ i = 1
    /\ net[<<1, MASTER, FINAL_TAG>>] = << >>
    /\ net[<<2, MASTER, FINAL_TAG>>] # << >>
    /\ Len(report) = Rows \div size

\* C4: with buffered sends, rows % W = 0 and generations >= 0, a state in
\* which not every worker has finished is never a dead end.
C4_EveryWorkerFinishes ==
    (Divides /\ generations >= 0 /\ ~AllFinished) => ENABLED Next

\* A state in which nothing more can happen by design.
Ended == \/ AllFinished
         \/ \A r \in Procs : pc[r] = "aborted"
         \/ \A r \in Procs : pc[r] = "crashed"

\* Rank r stands inside the boundary exchange of a generation.
InExchange(r) ==
    pc[r] \in {"sendDown", "waitDown", "recvTop", "sendUp", "waitUp", "recvBottom"}

\* C5 as amended: under synchronous sends no state in which some rank stands
\* inside the exchange is a dead end: some process can always take a step.
C5_SyncExchangeNeverDeadlocks ==
    (\E r \in Procs : InExchange(r)) => ENABLED NextSync

\* Three ranks, and every rank that sends down is blocked in that send.
C5_Witness ==
    size = 3 /\ pc[0] = "waitDown" /\ pc[1] = "waitDown"

\* C5 as claimed: under synchronous sends the exchange deadlocks, in the state
\* the claim rests on: with W >= 2, once every rank that sends down is blocked
\* in its send-down, no process can ever proceed.
C5_ExchangeCanDeadlock ==
    (size >= 2 /\ \A r \in 0..(size - 2) : pc[r] = "waitDown") => ~ENABLED NextSync

\* C6: when rank r is about to run the update of generation g, fromTop is the
\* last row of rank r-1's slice after g-1 updates and fromBottom the first row
\* of rank r+1's slice after g-1 updates.
C6_HaloOfPreviousGeneration ==
    \A r \in Procs :
        pc[r] = "update" =>
            /\ r # 0 =>
                  /\ Len(hist[r - 1]) >= g[r]
                  /\ fromTop[r] = hist[r - 1][g[r]][info[r][SLICEROWS] - 1]
            /\ r # size - 1 =>
                  /\ Len(hist[r + 1]) >= g[r]
                  /\ fromBottom[r] = hist[r + 1][g[r]][0]

\* Rank r is about to update generation 1 while rank r-1's row of generation 2
\* is already queued for it, and that row differs from the one it holds.
C6_Witness ==
    \E r \in Procs :
        /\ r >= 1
        /\ pc[r] = "update"
        /\ g[r] = 1
        /\ net[<<r - 1, r, DOWN_TAG>>] # << >>
        /\ Head(net[<<r - 1, r, DOWN_TAG>>]).gen = 2
        /\ Head(net[<<r - 1, r, DOWN_TAG>>]).data # fromTop[r]

\* The grid rows rank r owns.
OwnedRows(r) ==
    [x \in 0..((Rows \div size) - 1) |-> grid[x + r * (Rows \div size)]]

\* C7: for rows % W = 0 every rank receives the RunConfig (columns, rows/W,
\* generations) and the slice of grid rows [r*sliceRows, (r+1)*sliceRows).
C7_PartitionDelivered ==
    Divides =>
        \A r \in Procs :
            Len(hist[r]) >= 1 =>
                /\ info[r] = ZeroBased(<< Cols, Rows \div size, generations >>)
                /\ hist[r][1] = OwnedRows(r)

\* C8: with generations < 0 nothing is ever sent, received, updated or
\* printed: every process is where it started, or aborted.
C8_NegativeGenerationsAbort ==
    generations < 0 =>
        /\ NetEmpty
        /\ report = << >>
        /\ \A r \in Procs :
              /\ hist[r] = << >>
              /\ slice[r] = Empty
              /\ tmpSlice[r] = Empty
              /\ pc[r] \in {"processRoot", "recvInfo", "aborted"}

\* The job was aborted for a negative generation count.
C8_Witness ==
    generations < 0 /\ size >= 2 /\ \A r \in Procs : pc[r] = "aborted"

\* C9: with rows % W # 0 no slice is sent, nothing is updated, nothing printed.
C9_IndivisibleAborts ==
    ~Divides =>
        /\ \A r \in Procs : net[<<MASTER, r, SLICE_TAG>>] = << >> /\ hist[r] = << >>
        /\ report = << >>

\* What the positions above row 0 (below the last row) add to the sum of cell
\* (0, y) (of cell (sliceRows-1, y)) in rank r's kernel.
FromAbove(r, y) ==
      Neighbour(slice[r], fromTop[r], fromBottom[r], -1, y - 1,
                info[r][SLICEROWS], info[r][COLUMNS], ub.word)
    + Neighbour(slice[r], fromTop[r], fromBottom[r], -1, y,
                info[r][SLICEROWS], info[r][COLUMNS], ub.word)
    + Neighbour(slice[r], fromTop[r], fromBottom[r], -1, y + 1,
                info[r][SLICEROWS], info[r][COLUMNS], ub.word)

FromBelow(r, y) ==
      Neighbour(slice[r], fromTop[r], fromBottom[r], info[r][SLICEROWS], y - 1,
                info[r][SLICEROWS], info[r][COLUMNS], ub.word)
    + Neighbour(slice[r], fromTop[r], fromBottom[r], info[r][SLICEROWS], y,
                info[r][SLICEROWS], info[r][COLUMNS], ub.word)
    + Neighbour(slice[r], fromTop[r], fromBottom[r], info[r][SLICEROWS], y + 1,
                info[r][SLICEROWS], info[r][COLUMNS], ub.word)

\* C10: no halo row is ever sent to rank 0 from above or to rank W-1 from
\* below; when rank 0 (rank W-1) is about to update, fromTop (fromBottom) is
\* all zeros and the positions above (below) the grid add 0 to every sum.
C10_WallsContributeZero ==
    /\ \A q \in Procs : /\ net[<<q, MASTER, DOWN_TAG>>] = << >>
                        /\ net[<<q, size - 1, UP_TAG>>] = << >>
    /\ pc[MASTER] = "update" =>
          /\ fromTop[MASTER] = Zeros(info[MASTER][COLUMNS])
          /\ \A y \in 0..(info[MASTER][COLUMNS] - 1) : FromAbove(MASTER, y) = 0
    /\ pc[size - 1] = "update" =>
          /\ fromBottom[size - 1] = Zeros(info[size - 1][COLUMNS])
          /\ \A y \in 0..(info[size - 1][COLUMNS] - 1) : FromBelow(size - 1, y) = 0

\* What the positions left of column 0 and right of column columns-1 add to the
\* sum of cell (x, y) in rank r's kernel.
FromOutsideColumns(r, x, y) ==
    LET columns == info[r][COLUMNS]
        outside == {ny \in {y - 1, y + 1} : ny < 0 \/ ny >= columns}
        addend(nx, ny) == Neighbour(slice[r], fromTop[r], fromBottom[r], nx, ny,
                                    info[r][SLICEROWS], columns, ub.word)
    IN  [ny \in outside |-> addend(x - 1, ny) + addend(x, ny) + addend(x + 1, ny)]

\* C11: when a rank is about to update, every index with which the kernel
\* reads fromTop and fromBottom lies in 0..columns-1, and for every cell of
\* column 0 and of column columns-1, on every row of the slice, the positions
\* outside the columns add 0 to the sum.
C11_ColumnsOutsideContributeZero ==
    \A r \in Procs :
        pc[r] = "update" =>
            /\ \A ny \in FromTopIndices(info[r][SLICEROWS], info[r][COLUMNS])
                       \cup FromBottomIndices(info[r][SLICEROWS], info[r][COLUMNS]) :
                   ny >= 0 /\ ny < info[r][COLUMNS]
            /\ \A x \in 0..(info[r][SLICEROWS] - 1) :
                   \A y \in {0, info[r][COLUMNS] - 1} :
                      \A ny \in DOMAIN FromOutsideColumns(r, x, y) :
                         FromOutsideColumns(r, x, y)[ny] = 0

\* Rank r has run the kernel of generation g[r] and not yet copied tmpSlice.
KernelDone(r) == pc[r] \in {"print", "collect", "sendFinal", "waitFinal", "copy"}

\* The sum the kernel formed for cell (x, y) of rank r.
CountOf(r, x, y) ==
    NeighbourSum(slice[r], fromTop[r], fromBottom[r], x, y,
                 info[r][SLICEROWS], info[r][COLUMNS], ub.word)

\* C12: for a cell in {0, 1} with a count in 0..8 the kernel's new value is 1
\* exactly when the cell is alive and the count is 2 or 3, or the cell is dead
\* and the count is 3; otherwise 0.
C12_TransitionRule ==
    \A r \in Procs :
        KernelDone(r) =>
            \A x \in DOMAIN tmpSlice[r] : \A y \in DOMAIN tmpSlice[r][x] :
                (slice[r][x][y] \in {0, 1} /\ CountOf(r, x, y) \in 0..8) =>
                    tmpSlice[r][x][y] =
                        IF \/ slice[r][x][y] = 1 /\ CountOf(r, x, y) \in {2, 3}
                           \/ slice[r][x][y] = 0 /\ CountOf(r, x, y) = 3
                        THEN 1 ELSE 0

\* A live cell with eight living neighbours has been updated, and is dead.
C12_Witness ==
    /\ size = 1
    /\ KernelDone(MASTER)
    /\ slice[MASTER][1][1] = 1
    /\ CountOf(MASTER, 1, 1) = 8
    /\ tmpSlice[MASTER][1][1] = 0

\* Every rank has run k updates.
AllReached(k) == \A r \in Procs : Len(hist[r]) >= k + 1

\* The state of the whole board after k generations: every rank's slice.
GlobalAfter(k) == [r \in Procs |-> hist[r][k + 1]]

\* C13: on the blinker board, for every worker count that divides the rows,
\* the board after k+2 generations is the board after k generations and is
\* not the board after k+1 generations.
C13_BlinkerPeriodTwo ==
    (grid = BlinkerGrid /\ Divides) =>
        \A k \in 0..(generations - 2) :
            AllReached(k + 2) =>
                /\ GlobalAfter(k + 2) = GlobalAfter(k)
                /\ GlobalAfter(k + 1) # GlobalAfter(k)

\* C14: a rank stands in the exchange of generation g only with the update of
\* generation g-1 done and copied into slice; it has left the receive from
\* above only with fromTop filled in generation g; it stands before the
\* update of generation g only with g-1 updates done, slice the result of the
\* last, and fromTop and fromBottom both received or zero-filled in
\* generation g; after that update it has done g updates.
C14_ExchangeBeforeUpdate ==
    \A r \in Procs :
        /\ (InExchange(r) \/ pc[r] = "update") =>
               /\ g[r] >= 1
               /\ Len(hist[r]) = g[r]
               /\ slice[r] = hist[r][g[r]]
        /\ pc[r] \in {"sendUp", "waitUp", "recvBottom"} => haloGen[r].top = g[r]
        /\ pc[r] = "update" =>
               /\ haloGen[r].top = g[r]
               /\ haloGen[r].bottom = g[r]
        /\ KernelDone(r) => Len(hist[r]) = g[r] + 1

\* The middle rank is about to run the update of generation 2; the rank above
\* has run it already, the rank below has not.
C14_Witness ==
    /\ size = 3
    /\ pc[1] = "update"
    /\ g[1] = 2
    /\ Len(hist[0]) = 3
    /\ Len(hist[2]) = 2

\* The slice of rank r after k updates, and what the claim lets the update of
\* generation k + 1 make of it: every cell from the values of that slice and
\* of the two rows held, none from a value of the new slice.
SliceAfter(r, k) == hist[r][k + 1]

FromOldValuesOnly(r, k) ==
    [x \in 0..(info[r][SLICEROWS] - 1) |->
        [y \in 0..(info[r][COLUMNS] - 1) |->
            Rule(SliceAfter(r, k)[x][y],
                 NeighbourSum(SliceAfter(r, k), fromTop[r], fromBottom[r], x, y,
                              info[r][SLICEROWS], info[r][COLUMNS], ub.word))]]

\* C15: slice is always the whole result of the g-1 updates before generation
\* g, also once the kernel of generation g has run and until the copy; the
\* kernel's result is in tmpSlice and every cell of it is computed from the
\* old values only; every row in flight is a row of a whole old slice and
\* every final slice in flight the whole result of the last update.
C15_SliceUntouchedByKernel ==
    \A r \in Procs :
        /\ g[r] >= 1 => slice[r] = SliceAfter(r, g[r] - 1)
        /\ KernelDone(r) =>
               /\ tmpSlice[r] = SliceAfter(r, g[r])
               /\ tmpSlice[r] = FromOldValuesOnly(r, g[r] - 1)
        /\ r # size - 1 =>
               \A k \in 1..Len(net[<<r, r + 1, DOWN_TAG>>]) :
                  LET m == net[<<r, r + 1, DOWN_TAG>>][k]
                  IN  m.data = RowOf(SliceAfter(r, m.gen - 1),
                                     info[r][SLICEROWS] - 1, info[r][COLUMNS])
        /\ r # 0 =>
               /\ \A k \in 1..Len(net[<<r, r - 1, UP_TAG>>]) :
                     LET m == net[<<r, r - 1, UP_TAG>>][k]
                     IN  m.data = RowOf(SliceAfter(r, m.gen - 1), 0, info[r][COLUMNS])
               /\ \A k \in 1..Len(net[<<r, MASTER, FINAL_TAG>>]) :
                     net[<<r, MASTER, FINAL_TAG>>][k].data = SliceAfter(r, generations)

\* A rank has run the kernel and not yet copied; the new slice differs from
\* the old one and from what writing into slice cell by cell would have given.
C15_Witness ==
    \E r \in Procs :
        /\ pc[r] = "copy"
        /\ g[r] = 1
        /\ tmpSlice[r] # slice[r]
        /\ tmpSlice[r] # UpdateKernelInPlace(slice[r], fromTop[r], fromBottom[r],
                                              info[r][SLICEROWS], info[r][COLUMNS],
                                              ub.word)

\* The job is running: no MPI_Abort, no abnormal end.
Running == \A r \in Procs : pc[r] \notin {"aborted", "crashed"}

\* The number of receives from above (from below) rank d has completed.
TopReceived(d) ==
    IF pc[d] \in {"sendUp", "waitUp", "recvBottom", "update"} \/ KernelDone(d)
    THEN g[d]
    ELSE IF g[d] >= 1 THEN g[d] - 1 ELSE 0

BottomReceived(d) ==
    IF pc[d] = "update" \/ KernelDone(d)
    THEN g[d]
    ELSE IF g[d] >= 1 THEN g[d] - 1 ELSE 0

\* The root has received rank r's final slice.
Collected(r) ==
    \/ pc[MASTER] = "collect" /\ i > r
    \/ pc[MASTER] \in {"copy", "finished"} /\ g[MASTER] >= generations /\ Len(hist[MASTER]) > generations

\* The channels the program uses: from the root with tags 0 and 2, down and
\* up between neighbours with tags 3 and 4, to the root with tag 5.
Used(src, dst, tag) ==
    \/ tag \in {TAG, SLICE_TAG} /\ src = MASTER
    \/ tag = DOWN_TAG /\ dst = src + 1
    \/ tag = UP_TAG /\ dst = src - 1
    \/ tag = FINAL_TAG /\ dst = MASTER /\ src # MASTER

\* Only the channels the program uses hold a message.
OnlyUsedChannels ==
    \A k \in DOMAIN net : net[k] # << >> => Used(k[1], k[2], k[3])

\* No row and no final slice is in flight.
NoHaloOrFinalInFlight ==
    \A k \in DOMAIN net : net[k] # << >> => k[3] \in {TAG, SLICE_TAG}

\* C16: while the job runs, a RunConfig or an initial slice is in flight only
\* once and only before its addressee's receive of it; the rows in flight
\* from a rank to its neighbour are those of the generations following the
\* neighbour's last receive from it, in order, so that each is taken by the
\* receive of its own generation, and the row a rank holds is the one of the
\* generation of its last receive; a final slice is in flight once, sent in
\* the last generation, and only before the root has collected it; no other
\* channel ever holds a message; and with every rank finished none holds one.
C16_EveryMessageReceivedOnce ==
    Running =>
        /\ OnlyUsedChannels
        /\ \A d \in Procs :
              /\ Len(net[<<MASTER, d, TAG>>]) <= 1
              /\ net[<<MASTER, d, TAG>>] # << >> =>
                     pc[d] \in {"sendInfo", "sendSlice", "recvInfo"}
              /\ Len(net[<<MASTER, d, SLICE_TAG>>]) <= 1
              /\ net[<<MASTER, d, SLICE_TAG>>] # << >> =>
                     pc[d] \in {"sendSlice", "recvInfo", "recvSlice"}
        /\ \A r \in 0..(size - 2) :
              /\ \A j \in 1..Len(net[<<r, r + 1, DOWN_TAG>>]) :
                     net[<<r, r + 1, DOWN_TAG>>][j].gen = TopReceived(r + 1) + j
              /\ TopReceived(r + 1) >= 1 => haloGen[r + 1].top = TopReceived(r + 1)
        /\ \A r \in 1..(size - 1) :
              /\ \A j \in 1..Len(net[<<r, r - 1, UP_TAG>>]) :
                     net[<<r, r - 1, UP_TAG>>][j].gen = BottomReceived(r - 1) + j
              /\ BottomReceived(r - 1) >= 1 =>
                     haloGen[r - 1].bottom = BottomReceived(r - 1)
              /\ Len(net[<<r, MASTER, FINAL_TAG>>]) <= 1
              /\ net[<<r, MASTER, FINAL_TAG>>] # << >> =>
                     /\ net[<<r, MASTER, FINAL_TAG>>][1].gen = generations
                     /\ ~Collected(r)
        /\ AllFinished => NetEmpty

\* The middle rank waits for the row from below of generation 1, which is in
\* flight, while the row from above of generation 2 is already in flight to it.
C16_Witness ==
    /\ size = 3
    /\ pc[1] = "recvBottom"
    /\ g[1] = 1
    /\ Len(net[<<2, 1, UP_TAG>>]) = 1
    /\ Len(net[<<0, 1, DOWN_TAG>>]) = 1
    /\ net[<<0, 1, DOWN_TAG>>][1].gen = 2

\* The number of kernel runs rank r has made.
Updates(r) == IF hist[r] = << >> THEN 0 ELSE Len(hist[r]) - 1

\* Rank r is in generation g[r] of the loop.
InGeneration(r) == InExchange(r) \/ pc[r] = "update" \/ KernelDone(r)

\* Rank r's final slice has been sent (r # 0), or printed (r = 0).
Contributed(r) ==
    IF r = MASTER
    THEN \E k \in 1..Len(report) : report[k].rank = MASTER
    ELSE net[<<r, MASTER, FINAL_TAG>>] # << >> \/ Collected(r)

\* C17: while the job runs, a rank before the loop has g = 0 and has run no
\* kernel; in the loop 1 <= g <= generations, with g-1 kernel runs before the
\* kernel of generation g and g after it, and the rows last received in
\* generation g-1 or g; finished, it has g = generations + 1, has run the
\* kernel `generations` times and last exchanged rows in generation
\* `generations`.  For generations >= 1 it contributes its slice only in
\* generation `generations`, once: nothing before the kernel of that
\* generation, at most one final slice in flight, and the finished job has
\* printed sliceRows lines per rank.  For generations = 0 no rank is ever in
\* the loop, no kernel runs and no row is exchanged.
C17_DriverCountsGenerations ==
    Running =>
      /\ generations = 0 => NoHaloOrFinalInFlight
      /\ \A r \in Procs :
            /\ pc[r] \in {"processRoot", "sendInfo", "sendSlice", "recvInfo", "recvSlice"} =>
                   g[r] = 0 /\ Updates(r) = 0 /\ haloGen[r] = Constructed
            /\ InGeneration(r) =>
                   /\ g[r] >= 1 /\ g[r] <= generations
                   /\ Updates(r) = IF KernelDone(r) THEN g[r] ELSE g[r] - 1
                   /\ haloGen[r].top \in {g[r] - 1, g[r]}
                   /\ haloGen[r].bottom \in {g[r] - 1, g[r]}
            /\ pc[r] = "finished" =>
                   /\ g[r] = generations + 1
                   /\ Updates(r) = generations
                   /\ haloGen[r] = [top |-> generations, bottom |-> generations]
            /\ generations >= 1 =>
                   /\ (Updates(r) < generations \/ pc[r] \in {"print", "sendFinal"})
                          => ~Contributed(r)
                   /\ pc[r] \in {"print", "collect", "sendFinal"} => g[r] = generations
                   /\ pc[r] = "finished" => Contributed(r)
                   /\ r # MASTER => Len(net[<<r, MASTER, FINAL_TAG>>]) <= 1
                   /\ AllFinished => Len(report) = size * info[MASTER][SLICEROWS]
            /\ generations = 0 =>
                   /\ ~InGeneration(r)
                   /\ Updates(r) = 0
                   /\ haloGen[r] = Constructed

\* Of three ranks running two generations the last has finished, its final
\* slice has been sent, and the root has not yet collected it.
C17_Witness ==
    /\ size = 3
    /\ generations = 2
    /\ pc[2] = "finished"
    /\ net[<<2, MASTER, FINAL_TAG>>] # << >>
    /\ pc[MASTER] # "finished"

\* The distance of two ranks in the chain.
Apart(r, s) == IF r >= s THEN r - s ELSE s - r

\* C18: the numbers of generations any two ranks have computed differ by at
\* most their distance in the chain; neighbours by at most one.
C18_NeighboursWithinOneGeneration ==
    \A r \in Procs : \A s \in Procs :
        Updates(r) - Updates(s) <= Apart(r, s)

\* Rank 0 has computed two generations, rank 1 one, rank 2 none.
C18_Witness ==
    /\ size = 3
    /\ Updates(0) = 2
    /\ Updates(1) = 1
    /\ Updates(2) = 0

\* C19: with buffered sends no halo channel ever holds more than one row, and
\* a rank about to send a row down (up) finds the channel to that neighbour
\* empty: a buffer of one row per direction and pair of neighbours suffices.
C19_OneRowInFlight ==
    /\ \A r \in 0..(size - 2) :
          /\ Len(net[<<r, r + 1, DOWN_TAG>>]) <= 1
          /\ pc[r] = "sendDown" => net[<<r, r + 1, DOWN_TAG>>] = << >>
    /\ \A r \in 1..(size - 1) :
          /\ Len(net[<<r, r - 1, UP_TAG>>]) <= 1
          /\ pc[r] = "sendUp" => net[<<r, r - 1, UP_TAG>>] = << >>

\* Both downward channels of three ranks hold a row of generation 2 at once.
C19_Witness ==
    /\ size = 3
    /\ \A r \in 0..1 :
          /\ Len(net[<<r, r + 1, DOWN_TAG>>]) = 1
          /\ net[<<r, r + 1, DOWN_TAG>>][1].gen = 2

\* C20: once test.sh has gone past find_lowest_divisor, the function has
\* written a worker count W with W >= 1, rows % W = 0 and W <= available
\* processors, and the job runs with exactly W processes.
C20_LauncherStartsDivisor ==
    launcher # "script" =>
        /\ num_processors # << >>
        /\ Head(num_processors) >= 1
        /\ Rows % Head(num_processors) = 0
        /\ Head(num_processors) <= available_processors
        /\ launcher = "mpirun"
        /\ size = Head(num_processors)

=============================================================================
